---- MODULE Spec2Model ----
(***************************************************************************)
(* Contact form of the personal-brand site (js/form-handler.js): the five  *)
(* field validators, the per-field error display, and the submission       *)
(* lifecycle driven by handleSubmit, the submission collaborator and the   *)
(* post-success reset timer; and the mobile menu of the site's navigation   *)
(* (js/navigation.js): toggle, close, and the listeners that call them.     *)
(*                                                                         *)
(* A string is a sequence of one-character strings, so that trim(), length *)
(* and the regular expressions are computed character by character.        *)
(***************************************************************************)
EXTENDS Integers, Sequences, FiniteSets, TLC

VARIABLES
    value,          \* field name -> field.element.value
    errors,         \* field name -> error slot and aria-invalid marker
    successDisplay, \* successMessage.style.display
    disabled,       \* submitButton.disabled
    buttonText,     \* submitButton.textContent
    focus,          \* the element the script focused last
    calls,          \* unresolved simulateFormSubmission promises, oldest first
    timers,         \* pending post-success reset timers, oldest first
    pc,             \* position inside the callback that is running, if any
    nPassed,        \* submit requests for which validateForm() returned true
    nCalls,         \* calls made to the submission collaborator
    menu,           \* toggle's aria-expanded, nav menu's 'active', body overflow
    innerWidth,     \* window.innerWidth
    resizeTimer,    \* the debounced resize callback is pending
    hash            \* the fragment history.pushState put into the URL

\* The navigation script's part of the state.
nav == <<menu, innerWidth, resizeTimer, hash>>

vars == <<value, errors, successDisplay, disabled, buttonText, focus,
          calls, timers, pc, nPassed, nCalls, menu, innerWidth, resizeTimer,
          hash>>

-----------------------------------------------------------------------------
(* Bounds and program constants *)

\* Submissions that pass validation in one run.
MaxSubmits == 2

NameMinLength == 2
NameMaxLength == 100
MessageMinLength == 10
MessageMaxLength == 2000

\* Object.keys(formFields): declaration order.
FieldOrder == <<"name", "email", "phone", "subject", "message">>

Fields == {FieldOrder[i] : i \in 1..Len(FieldOrder)}

\* formFields[f].required !== false
isRequired(fieldName) == fieldName # "phone"

BusyLabel == "Sending..."

GenericFailure == "Failed to send message. Please try again or contact us directly."

\* The label of the submit control in the page markup.
OriginalLabel == "Send Message"

\* The value contactForm.reset() gives a field back: the markup's default.
DefaultValue(fieldName) == <<>>

-----------------------------------------------------------------------------
(* Strings *)

Whitespace == {" ", "\t", "\n"}

Digits == {"0", "1", "2", "3", "4", "5", "6", "7", "8", "9"}

SetMin(S) == CHOOSE x \in S : \A y \in S : x <= y

\* String.prototype.trim: what lies between the first and the last character
\* that is not whitespace.
trim(s) ==
    LET text(i) == s[i] \notin Whitespace
        first == CHOOSE i \in 1..Len(s) :
                    text(i) /\ \A j \in 1..(i - 1) : ~text(j)
        last == CHOOSE i \in 1..Len(s) :
                    text(i) /\ \A j \in (i + 1)..Len(s) : ~text(j)
    IN IF \A i \in 1..Len(s) : ~text(i) THEN <<>> ELSE SubSeq(s, first, last)

\* An emptiness test that does not trim.
isBlank_EmptyOnly(s) == s = <<>>

\* !value || value.trim().length === 0
isBlank(s) == s = <<>> \/ Len(trim(s)) = 0

\* [^\s@]+ matching exactly s[a..b]
emailPart(s, a, b) ==
    a <= b /\ \A i \in a..b : s[i] \notin (Whitespace \cup {"@"})

\* /^[^\s@]+@[^\s@]+\.[^\s@]+$/.test(s)
emailRegexTest(s) ==
    \E p \in 1..Len(s) : \E q \in 1..Len(s) :
        /\ p < q
        /\ s[p] = "@"
        /\ s[q] = "."
        /\ emailPart(s, 1, p - 1)
        /\ emailPart(s, p + 1, q - 1)
        /\ emailPart(s, q + 1, Len(s))

\* The pattern without its anchors: one allowed character is enough.
phoneRegexTest_Unanchored(s) ==
    \E i \in 1..Len(s) :
        s[i] \in (Digits \cup Whitespace \cup {"-", "+", "(", ")"})

\* /^[\d\s\-\+\(\)]+$/.test(s)
phoneRegexTest(s) ==
    /\ Len(s) >= 1
    /\ \A i \in 1..Len(s) :
          s[i] \in (Digits \cup Whitespace \cup {"-", "+", "(", ")"})

-----------------------------------------------------------------------------
(* Validators: the error message, "" when the value is accepted *)

validateName(v) ==
    IF isBlank(v) THEN "Name is required"
    ELSE IF Len(trim(v)) < NameMinLength THEN "Name must be at least 2 characters"
    ELSE IF Len(trim(v)) > NameMaxLength THEN "Name must be less than 100 characters"
    ELSE ""

\* The pattern tested on the trimmed value.
validateEmail_Trimmed(v) ==
    IF isBlank(v) THEN "Email is required"
    ELSE IF ~emailRegexTest(trim(v)) THEN "Please enter a valid email address"
    ELSE ""

validateEmail(v) ==
    IF isBlank(v) THEN "Email is required"
    ELSE IF ~emailRegexTest(v) THEN "Please enter a valid email address"
    ELSE ""

validatePhone(v) ==
    IF isBlank(v) THEN ""
    ELSE IF ~phoneRegexTest(v) THEN "Please enter a valid phone number"
    ELSE ""

validateSubject(v) ==
    IF isBlank(v) THEN "Please select a subject" ELSE ""

\* Length rules on the value as typed, not on the trimmed value.
validateMessage_RawLength(v) ==
    IF isBlank(v) THEN "Message is required"
    ELSE IF Len(v) < MessageMinLength THEN "Message must be at least 10 characters"
    ELSE IF Len(v) > MessageMaxLength THEN "Message must be less than 2000 characters"
    ELSE ""

validateMessage(v) ==
    IF isBlank(v) THEN "Message is required"
    ELSE IF Len(trim(v)) < MessageMinLength THEN "Message must be at least 10 characters"
    ELSE IF Len(trim(v)) > MessageMaxLength THEN "Message must be less than 2000 characters"
    ELSE ""

\* formFields[fieldName].validator(v)
validator(fieldName, v) ==
    CASE fieldName = "name" -> validateName(v)
      [] fieldName = "email" -> validateEmail(v)
      [] fieldName = "phone" -> validatePhone(v)
      [] fieldName = "subject" -> validateSubject(v)
      [] fieldName = "message" -> validateMessage(v)

-----------------------------------------------------------------------------
(* Error display *)

\* A showError that appends to the text already shown.
showError_Appends(e, fieldName, message) ==
    [e EXCEPT ![fieldName] = [textContent |-> e[fieldName].textContent \o message,
                              display |-> "block",
                              ariaInvalid |-> TRUE]]

showError(e, fieldName, message) ==
    [e EXCEPT ![fieldName] =
        [textContent |-> message, display |-> "block", ariaInvalid |-> TRUE]]

clearError(e, fieldName) ==
    [e EXCEPT ![fieldName] =
        [textContent |-> "", display |-> "none", ariaInvalid |-> FALSE]]

\* The message validateField finds for value v of the field ("" when it
\* returns true): an optional empty field is skipped before its validator.
fieldError(fieldName, v) ==
    IF ~isRequired(fieldName) /\ isBlank(v) THEN "" ELSE validator(fieldName, v)

\* validateField's return value
fieldIsValid(fieldName, v) == fieldError(fieldName, v) = ""

\* An early exit for the empty optional field that leaves the display alone.
validateField_SkipKeepsError(e, vals, fieldName) ==
    IF ~isRequired(fieldName) /\ isBlank(vals[fieldName])
    THEN e
    ELSE IF validator(fieldName, vals[fieldName]) # ""
         THEN showError(e, fieldName, validator(fieldName, vals[fieldName]))
         ELSE clearError(e, fieldName)

\* A validateField that refreshes the display of every field.
validateField_RevalidatesAll(e, vals, fieldName) ==
    [g \in Fields |->
        IF ~isRequired(g) /\ isBlank(vals[g])
        THEN clearError(e, g)[g]
        ELSE IF validator(g, vals[g]) # ""
             THEN showError(e, g, validator(g, vals[g]))[g]
             ELSE clearError(e, g)[g]]

\* validateField's effect on the error display
validateField(e, vals, fieldName) ==
    IF ~isRequired(fieldName) /\ isBlank(vals[fieldName])
    THEN clearError(e, fieldName)
    ELSE IF validator(fieldName, vals[fieldName]) # ""
         THEN showError(e, fieldName, validator(fieldName, vals[fieldName]))
         ELSE clearError(e, fieldName)

RECURSIVE validateFormFrom_ShortCircuit(_, _, _, _)
\* A loop that stops at the first invalid field.
validateFormFrom_ShortCircuit(i, e, vals, isValid) ==
    IF i > Len(FieldOrder) THEN [errors |-> e, isValid |-> isValid]
    ELSE IF ~fieldIsValid(FieldOrder[i], vals[FieldOrder[i]])
         THEN [errors |-> validateField(e, vals, FieldOrder[i]),
               isValid |-> FALSE]
         ELSE validateFormFrom_ShortCircuit(i + 1,
                                            validateField(e, vals, FieldOrder[i]),
                                            vals, isValid)

RECURSIVE validateFormFrom(_, _, _, _)
\* Object.keys(formFields).forEach from position i on, isValid so far
validateFormFrom(i, e, vals, isValid) ==
    IF i > Len(FieldOrder) THEN [errors |-> e, isValid |-> isValid]
    ELSE validateFormFrom(i + 1,
                          validateField(e, vals, FieldOrder[i]),
                          vals,
                          isValid /\ fieldIsValid(FieldOrder[i], vals[FieldOrder[i]]))

\* A validateForm that also fails on a field that was marked invalid before.
validateForm_BlockedByMarker(e, vals) ==
    [errors |-> validateFormFrom(1, e, vals, TRUE).errors,
     isValid |-> /\ validateFormFrom(1, e, vals, TRUE).isValid
                 /\ \A f \in Fields : ~e[f].ariaInvalid]

validateForm(e, vals) == validateFormFrom(1, e, vals, TRUE)

\* The last marked field instead of the first.
firstError_Last(e) ==
    LET marked == {i \in 1..Len(FieldOrder) : e[FieldOrder[i]].ariaInvalid}
    IN IF marked = {} THEN "none"
       ELSE FieldOrder[CHOOSE i \in marked : \A j \in marked : j <= i]

\* Object.keys(formFields).find(aria-invalid === 'true'); "none" for undefined
firstError(e) ==
    LET marked == {i \in 1..Len(FieldOrder) : e[FieldOrder[i]].ariaInvalid}
    IN IF marked = {} THEN "none" ELSE FieldOrder[SetMin(marked)]

\* A data object that leaves the optional field out.
formData_DropsPhone(vals) ==
    [f \in Fields |-> IF f = "phone" THEN <<>> ELSE vals[f]]

\* The data object built from new FormData(contactForm)
formData(vals) == [f \in Fields |-> vals[f]]

-----------------------------------------------------------------------------
(* What the user may type into each field *)

NameInputs == {<<>>, <<"J">>, <<"J", "o">>}

EmailInputs ==
    {<<>>, <<"j", "o">>, <<"j", "o", "@", "x", ".", "c", "o", "m">>}

PhoneInputs ==
    {<<>>, <<"c", "a", "l", "l", "-", "m", "e">>,
     <<"+", "1", " ", "(", "5", "5", "5", ")", " ", "1", "2", "3", "-",
       "4", "5", "6", "7">>}

SubjectInputs == {<<>>, <<"G", "e", "n", "e", "r", "a", "l">>}

MessageInputs ==
    {<<>>, <<"H", "e", "l", "l", "o">>,
     <<"H", "e", "l", "l", "o", " ", "t", "h", "e", "r", "e", "!">>}

Inputs(fieldName) ==
    CASE fieldName = "name" -> NameInputs
      [] fieldName = "email" -> EmailInputs
      [] fieldName = "phone" -> PhoneInputs
      [] fieldName = "subject" -> SubjectInputs
      [] fieldName = "message" -> MessageInputs

-----------------------------------------------------------------------------
(* Navigation: the mobile menu *)

\* The width above which the resize callback closes the menu.
DesktopBreakpoint == 768

Widths == {375, DesktopBreakpoint, DesktopBreakpoint + 1, 1024}

\* setAttribute(name, boolean) stores the boolean's string form.
BoolAttr(b) == IF b THEN "true" ELSE "false"

\* The menu as the page's markup has it before any event.
MenuClosed == [ariaExpanded |-> "false", navActive |-> FALSE, bodyOverflow |-> ""]

toggleMobileMenu(m) ==
    LET isExpanded == m.ariaExpanded = "true"
    IN [ariaExpanded |-> BoolAttr(~isExpanded),
        navActive |-> ~m.navActive,
        bodyOverflow |-> IF ~isExpanded THEN "hidden" ELSE ""]

\* A close that forgets to release the scroll lock.
closeMobileMenu_KeepsScrollLock(m) ==
    [ariaExpanded |-> "false", navActive |-> FALSE, bodyOverflow |-> m.bodyOverflow]

closeMobileMenu(m) ==
    [ariaExpanded |-> "false", navActive |-> FALSE, bodyOverflow |-> ""]

\* String.prototype.startsWith
startsWith(s, prefix) ==
    Len(s) >= Len(prefix) /\ SubSeq(s, 1, Len(prefix)) = prefix

\* The ids document.getElementById finds on the page.
ElementIds ==
    {<<"a", "b", "o", "u", "t">>, <<"w", "o", "r", "k">>,
     <<"c", "o", "n", "t", "a", "c", "t">>}

\* The href attributes of the links in the nav menu.
NavLinks ==
    {<<"#">> \o id : id \in ElementIds}
      \cup {<<"#", "t", "o", "p">>,
            <<"c", "o", "n", "t", "a", "c", "t", ".", "h", "t", "m", "l">>,
            <<"h", "t", "t", "p", "s", ":", "/", "/", "x", ".", "y">>,
            <<"m", "a", "i", "l", "t", "o", ":", "a", "@", "b", ".", "c">>,
            <<"t", "e", "l", ":", "1", "2", "3">>}

\* handleSmoothScroll on a link with the given href: the menu and the URL
\* fragment it leaves.
handleSmoothScroll(m, h, href) ==
    IF href # <<>> /\ startsWith(href, <<"#">>)
    THEN IF SubSeq(href, 2, Len(href)) \in ElementIds
         THEN [menu |-> closeMobileMenu(m), hash |-> href]
         ELSE [menu |-> m, hash |-> h]
    ELSE IF /\ href # <<>>
            /\ ~startsWith(href, <<"h", "t", "t", "p">>)
            /\ ~startsWith(href, <<"m", "a", "i", "l", "t", "o">>)
            /\ ~startsWith(href, <<"t", "e", "l">>)
         THEN [menu |-> closeMobileMenu(m), hash |-> h]
         ELSE [menu |-> m, hash |-> h]

handleKeyboardNav(m, key) ==
    IF key = "Escape" /\ m.navActive THEN closeMobileMenu(m) ELSE m

\* target: where the click landed, "nav", "toggle" or "page"
handleOutsideClick(m, target) ==
    IF m.navActive /\ target # "nav" /\ target # "toggle"
    THEN closeMobileMenu(m)
    ELSE m

\* The resize callback, 250 ms after the last resize event.
onResizeTimeout(m, width) ==
    IF width > DesktopBreakpoint /\ m.navActive THEN closeMobileMenu(m) ELSE m

NavInit ==
    /\ menu = MenuClosed
    /\ innerWidth = 375
    /\ resizeTimer = FALSE
    /\ hash = <<>>

-----------------------------------------------------------------------------
(* The state after the script has run init() on the loaded page *)

NoError == [textContent |-> "", display |-> "none", ariaInvalid |-> FALSE]

Init ==
    /\ value = [f \in Fields |-> DefaultValue(f)]
    /\ errors = [f \in Fields |-> NoError]
    /\ successDisplay = "none"
    /\ disabled = FALSE
    /\ buttonText = OriginalLabel
    /\ focus = "none"
    /\ calls = <<>>
    /\ timers = <<>>
    /\ pc = "none"
    /\ nPassed = 0
    /\ nCalls = 0
    /\ NavInit

\* The five-state lifecycle, read off the script's own state: the callback
\* that is running, the unresolved promise, the pending reset timer.
SubmissionState ==
    IF pc = "validating" THEN "Validating"
    ELSE IF pc = "failed" THEN "Failed"
    ELSE IF calls # <<>> THEN "Sending"
    ELSE IF timers # <<>> THEN "Succeeded"
    ELSE "Idle"

-----------------------------------------------------------------------------
(* Field events *)

\* A listener that leaves the error display as it is.
onInput_NeverRevalidates(e, vals, fieldName) == e

\* An 'input' listener that revalidates whatever the marker says.
onInput_AlwaysRevalidates(e, vals, fieldName) == validateField(e, vals, fieldName)

\* The 'input' listener, after the user changed the field's value to v.
onInput(e, vals, fieldName) ==
    IF e[fieldName].ariaInvalid THEN validateField(e, vals, fieldName) ELSE e

Input(fieldName, v) ==
    /\ pc = "none"
    /\ v # value[fieldName]
    /\ value' = [value EXCEPT ![fieldName] = v]
    /\ errors' = onInput(errors, value', fieldName)
    /\ UNCHANGED <<successDisplay, disabled, buttonText, focus, calls, timers,
                   pc, nPassed, nCalls>>
    /\ UNCHANGED nav

\* The 'blur' listener.
onBlur(e, vals, fieldName) == validateField(e, vals, fieldName)

Blur(fieldName) ==
    /\ pc = "none"
    /\ errors' = onBlur(errors, value, fieldName)
    /\ UNCHANGED <<value, successDisplay, disabled, buttonText, focus, calls,
                   timers, pc, nPassed, nCalls>>
    /\ UNCHANGED nav

-----------------------------------------------------------------------------
(* handleSubmit *)

hideSuccess == successDisplay' = "none"

showSuccess == successDisplay' = "block" /\ focus' = "success"

\* handleSubmit up to the call of validateForm(): e.preventDefault() and
\* hideSuccess().  No other callback runs before the handler reaches its
\* await or returns.
handleSubmitEntry ==
    /\ pc = "none"
    /\ nPassed < MaxSubmits
    /\ hideSuccess
    /\ pc' = "validating"
    /\ UNCHANGED <<value, errors, disabled, buttonText, focus, calls, timers,
                   nPassed, nCalls>>
    /\ UNCHANGED nav

\* A submit event of the browser: a disabled submit control delivers none.
SubmitRequested == ~disabled /\ handleSubmitEntry

\* handleSubmit invoked although the control is disabled
\* (contactForm.requestSubmit(), a dispatched 'submit' event).
SubmitWhileDisabled == disabled /\ handleSubmitEntry

\* simulateFormSubmission(data): one more unresolved promise; the closure
\* keeps the label read before the control was disabled.
callCollaborator(data, originalButtonText) ==
    /\ calls' = Append(calls, [data |-> data,
                               originalButtonText |-> originalButtonText])
    /\ nCalls' = nCalls + 1

\* The busy label without the disabling.
disableSubmit_LabelOnly == disabled' = disabled /\ buttonText' = BusyLabel

\* submitButton.disabled = true; submitButton.textContent = 'Sending...'
disableSubmit == disabled' = TRUE /\ buttonText' = BusyLabel

\* The invalid branch: focus the first field marked invalid, and return.
focusFirstError(e) ==
    focus' = IF firstError(e) # "none" THEN firstError(e) ELSE focus

\* The invalid branch without its return: the handler goes on to send.
ValidateAndSend_NoReturn ==
    /\ pc = "validating"
    /\ LET r == validateForm(errors, value) IN
          /\ errors' = r.errors
          /\ nPassed' = IF r.isValid THEN nPassed + 1 ELSE nPassed
          /\ focus' = IF r.isValid THEN focus
                      ELSE IF firstError(r.errors) # "none"
                           THEN firstError(r.errors) ELSE focus
          /\ disableSubmit
          /\ callCollaborator(formData(value), buttonText)
    /\ pc' = "none"
    /\ UNCHANGED <<value, successDisplay, timers>>
    /\ UNCHANGED nav

\* handleSubmit from validateForm() to its await (or its early return).
ValidateAndSend ==
    /\ pc = "validating"
    /\ LET r == validateForm(errors, value) IN
          /\ errors' = r.errors
          /\ IF r.isValid
             THEN /\ nPassed' = nPassed + 1
                  /\ disableSubmit
                  /\ callCollaborator(formData(value), buttonText)
                  /\ UNCHANGED focus
             ELSE /\ focusFirstError(r.errors)
                  /\ UNCHANGED <<nPassed, disabled, buttonText, calls, nCalls>>
    /\ pc' = "none"
    /\ UNCHANGED <<value, successDisplay, timers>>
    /\ UNCHANGED nav

\* Success without the observation window: the control is enabled at once
\* and no reset timer is set.
SubmissionResolved_NoTimer ==
    /\ pc = "none"
    /\ calls # <<>>
    /\ calls' = Tail(calls)
    /\ showSuccess
    /\ disabled' = FALSE
    /\ buttonText' = Head(calls).originalButtonText
    /\ UNCHANGED <<value, errors, timers, pc, nPassed, nCalls>>
    /\ UNCHANGED nav

\* The promise resolves: showSuccess() and the 3000 ms reset timer.
\* A success path that re-enables the control at once, before the reset.
SubmissionResolved_ReenablesAtOnce ==
    /\ pc = "none"
    /\ calls # <<>>
    /\ calls' = Tail(calls)
    /\ showSuccess
    /\ timers' = Append(timers,
                        [originalButtonText |-> Head(calls).originalButtonText])
    /\ disabled' = FALSE
    /\ buttonText' = Head(calls).originalButtonText
    /\ UNCHANGED <<value, errors, pc, nPassed, nCalls>>
    /\ UNCHANGED nav

SubmissionResolved ==
    /\ pc = "none"
    /\ calls # <<>>
    /\ calls' = Tail(calls)
    /\ showSuccess
    /\ timers' = Append(timers,
                        [originalButtonText |-> Head(calls).originalButtonText])
    /\ UNCHANGED <<value, errors, disabled, buttonText, pc, nPassed, nCalls>>
    /\ UNCHANGED nav

\* A catch block that shows the message and leaves the control disabled.
handleFailure_StaysDisabled(originalButtonText) ==
    /\ errors' = showError(errors, "message", GenericFailure)
    /\ UNCHANGED <<disabled, buttonText>>
    /\ UNCHANGED <<value, successDisplay, focus, timers, nPassed, nCalls>>

\* A catch block that also resets the form.
handleFailure_ResetsFields(originalButtonText) ==
    /\ value' = [f \in Fields |-> DefaultValue(f)]
    /\ errors' = showError([f \in Fields |-> clearError(errors, f)[f]],
                           "message", GenericFailure)
    /\ disabled' = FALSE
    /\ buttonText' = originalButtonText
    /\ UNCHANGED <<successDisplay, focus, timers, nPassed, nCalls>>

\* The catch block.
handleFailure(originalButtonText) ==
    /\ errors' = showError(errors, "message", GenericFailure)
    /\ disabled' = FALSE
    /\ buttonText' = originalButtonText
    /\ UNCHANGED <<value, successDisplay, focus, timers, nPassed, nCalls>>

\* A catch block that calls the collaborator again with the same data.
SubmissionRejected_Retries ==
    /\ pc = "none"
    /\ calls # <<>>
    /\ calls' = Append(Tail(calls), Head(calls))
    /\ nCalls' = nCalls + 1
    /\ errors' = showError(errors, "message", GenericFailure)
    /\ UNCHANGED <<value, successDisplay, disabled, buttonText, focus, timers,
                   pc, nPassed>>
    /\ UNCHANGED nav

\* The promise rejects: the catch block runs.
SubmissionRejected ==
    /\ pc = "none"
    /\ calls # <<>>
    /\ calls' = Tail(calls)
    /\ handleFailure(Head(calls).originalButtonText)
    /\ pc' = "failed"
    /\ UNCHANGED nav

\* handleSubmit returns from its catch block: the attempt is over.
AttemptFailed ==
    /\ pc = "failed"
    /\ pc' = "none"
    /\ UNCHANGED <<value, errors, successDisplay, disabled, buttonText, focus,
                   calls, timers, nPassed, nCalls>>
    /\ UNCHANGED nav

\* resetForm without its clearError loop.
resetForm_KeepsErrors ==
    /\ value' = [f \in Fields |-> DefaultValue(f)]
    /\ errors' = errors
    /\ hideSuccess

\* resetForm(): contactForm.reset(), clearError on every field, hideSuccess().
\* A reset that leaves the success indicator on the page.
resetForm_KeepsSuccess ==
    /\ value' = [f \in Fields |-> DefaultValue(f)]
    /\ errors' = [f \in Fields |-> clearError(errors, f)[f]]
    /\ UNCHANGED successDisplay

resetForm ==
    /\ value' = [f \in Fields |-> DefaultValue(f)]
    /\ errors' = [f \in Fields |-> clearError(errors, f)[f]]
    /\ hideSuccess

\* A reset callback that forgets the submit control.
onResetTimer_StaysDisabled(originalButtonText) ==
    /\ resetForm
    /\ UNCHANGED <<disabled, buttonText>>

\* The reset timer's callback.
onResetTimer(originalButtonText) ==
    /\ resetForm
    /\ disabled' = FALSE
    /\ buttonText' = originalButtonText

ResetTimer ==
    /\ pc = "none"
    /\ timers # <<>>
    /\ timers' = Tail(timers)
    /\ onResetTimer(Head(timers).originalButtonText)
    /\ UNCHANGED <<focus, calls, pc, nPassed, nCalls>>
    /\ UNCHANGED nav

-----------------------------------------------------------------------------
(* Specifications *)

FieldEvent ==
    \E f \in Fields : (\E v \in Inputs(f) : Input(f, v)) \/ Blur(f)

Next ==
    \/ FieldEvent
    \/ SubmitRequested
    \/ ValidateAndSend
    \/ SubmissionResolved
    \/ SubmissionRejected
    \/ AttemptFailed
    \/ ResetTimer

\* Submit events come from the browser only.
Spec == Init /\ [][Next]_vars

\* The collaborator settles every call, timers fire, and a running callback
\* runs on.
Fairness ==
    /\ WF_vars(ValidateAndSend)
    /\ WF_vars(SubmissionResolved \/ SubmissionRejected)
    /\ WF_vars(AttemptFailed)
    /\ WF_vars(ResetTimer)

\* The user's typing in the runs checked for liveness: name, email and
\* subject are empty or hold one valid value, the message can also be too
\* short, and the optional phone stays empty.
LiveInputs(fieldName) ==
    CASE fieldName = "name" -> {<<>>, <<"J", "o">>}
      [] fieldName = "email" ->
            {<<>>, <<"j", "o", "@", "x", ".", "c", "o", "m">>}
      [] fieldName = "phone" -> {<<>>}
      [] fieldName = "subject" -> {<<>>, <<"G", "e", "n", "e", "r", "a", "l">>}
      [] fieldName = "message" -> MessageInputs

LiveFieldEvent ==
    \E f \in Fields : (\E v \in LiveInputs(f) : Input(f, v)) \/ Blur(f)

LiveNext ==
    \/ LiveFieldEvent
    \/ SubmitRequested
    \/ ValidateAndSend
    \/ SubmissionResolved
    \/ SubmissionRejected
    \/ AttemptFailed
    \/ ResetTimer

\* Spec with the fairness above, under the narrower typing.
FairSpec == Init /\ [][LiveNext]_vars /\ Fairness

NextAnySubmit == Next \/ SubmitWhileDisabled

\* handleSubmit may also be invoked while the control is disabled.
SpecAnySubmit == Init /\ [][NextAnySubmit]_vars

-----------------------------------------------------------------------------
(* Navigation events *)

\* The form script's state, the focus aside.
formState == <<value, errors, successDisplay, disabled, buttonText, calls,
               timers, pc, nPassed, nCalls>>

\* A click on the toggle: its own listener, then the document's.
ToggleClick ==
    /\ menu' = handleOutsideClick(toggleMobileMenu(menu), "toggle")
    /\ UNCHANGED <<innerWidth, resizeTimer, hash, focus, formState>>

\* A click on a link of the nav menu: the link's listener, then the document's.
NavLinkClick(href) ==
    /\ menu' = handleOutsideClick(handleSmoothScroll(menu, hash, href).menu, "nav")
    /\ hash' = handleSmoothScroll(menu, hash, href).hash
    /\ UNCHANGED <<innerWidth, resizeTimer, focus, formState>>

\* A click anywhere else on the page.
PageClick ==
    /\ menu' = handleOutsideClick(menu, "page")
    /\ UNCHANGED <<innerWidth, resizeTimer, hash, focus, formState>>

KeyDown(key) ==
    /\ menu' = handleKeyboardNav(menu, key)
    /\ focus' = IF key = "Escape" /\ menu.navActive THEN "toggle" ELSE focus
    /\ UNCHANGED <<innerWidth, resizeTimer, hash, formState>>

\* A resize event: clearTimeout, setTimeout.
Resize(width) ==
    /\ innerWidth' = width
    /\ resizeTimer' = TRUE
    /\ UNCHANGED <<menu, hash, focus, formState>>

ResizeTimeout ==
    /\ resizeTimer
    /\ resizeTimer' = FALSE
    /\ menu' = onResizeTimeout(menu, innerWidth)
    /\ UNCHANGED <<innerWidth, hash, focus, formState>>

MenuNext ==
    \/ ToggleClick
    \/ \E href \in NavLinks : NavLinkClick(href)
    \/ PageClick
    \/ \E key \in {"Escape", "Tab"} : KeyDown(key)
    \/ \E width \in Widths : Resize(width)
    \/ ResizeTimeout

MenuSpec == Init /\ [][MenuNext]_vars

-----------------------------------------------------------------------------
(* The validators on their own: validateField and validateForm applied to
   values and error displays drawn from bounded sets *)

\* Whitespace before and after a drawn value: 0..MaxPad characters each.
MaxPad == 1

\* n times the character c
Rep(c, n) == [i \in 1..n |-> c]

\* n letters between lead and trail spaces
Padded(lead, n, trail) == Rep(" ", lead) \o Rep("a", n) \o Rep(" ", trail)

\* The trimmed lengths tried for a field with length bounds lo..hi.
LengthsAround(lo, hi) == {0, lo - 1, lo, hi, hi + 1}

PaddedValues(lengths) ==
    {Padded(l, n, t) : l \in 0..MaxPad, n \in lengths, t \in 0..MaxPad}

NameValues == PaddedValues(LengthsAround(NameMinLength, NameMaxLength))

MessageValues == PaddedValues(LengthsAround(MessageMinLength, MessageMaxLength))

EmailValues ==
    {<<>>, <<" ">>,
     <<"a", "@", "b", ".", "c">>,
     <<" ", "a", "@", "b", ".", "c">>,
     <<"a", "@", "b", ".", "c", " ">>,
     <<"n", "o", "t", "-", "a", "n", "-", "e", "m", "a", "i", "l">>,
     <<"a", "@", "b">>, <<"@", "b", ".", "c">>, <<"a", "@", ".", "c">>,
     <<"a", "@", "b", ".">>, <<"a", "@", "@", "b", ".", "c">>,
     <<"a", " ", "b", "@", "c", ".", "d">>,
     <<"a", "@", "b", ".", "c", ".", "d">>,
     <<"a", "@", ".", "b", ".", "c">>, <<"a", "@", "b", ".", ".">>,
     <<"a", ".", "b", "@", "c">>, <<"a", "@", "b", ".", "c", "\t">>}

PhoneValues ==
    {<<>>, <<" ">>, <<"\t">>, <<" ", "\t">>,
     <<"+", "1", " ", "(", "5", "5", "5", ")", " ", "1", "2", "3", "-",
       "4", "5", "6", "7">>,
     <<"c", "a", "l", "l", "-", "m", "e">>,
     <<"1", "\t", "2">>, <<"1", "2", "a">>, <<"1", ".", "2">>,
     <<"(", "1", ")", "-", "2", "+">>}

SubjectValues ==
    {<<>>, <<" ">>, <<"\t", " ">>, <<"G", "e", "n", "e", "r", "a", "l">>,
     <<" ", "G", "e", "n", "e", "r", "a", "l", " ">>}

Values(fieldName) ==
    CASE fieldName = "name" -> NameValues
      [] fieldName = "email" -> EmailValues
      [] fieldName = "phone" -> PhoneValues
      [] fieldName = "subject" -> SubjectValues
      [] fieldName = "message" -> MessageValues

\* An error slot showing message m, as showError leaves it.
Shown(m) == [textContent |-> m, display |-> "block", ariaInvalid |-> TRUE]

\* The displays a field's slot may be in before validateField runs: cleared,
\* or showing any message of its validator or the generic failure message.
PriorDisplays(fieldName) ==
    {NoError, Shown(GenericFailure)}
      \cup {Shown(validator(fieldName, v)) :
              v \in {w \in Values(fieldName) : validator(fieldName, w) # ""}}

\* A form whose required fields hold valid values.
FilledIn ==
    [f \in Fields |->
        CASE f = "name" -> <<"J", "o">>
          [] f = "email" -> <<"j", "o", "@", "x", ".", "c", "o", "m">>
          [] f = "phone" -> <<>>
          [] f = "subject" -> <<"G", "e", "n", "e", "r", "a", "l">>
          [] f = "message" ->
               <<"H", "e", "l", "l", "o", " ", "t", "h", "e", "r", "e", "!">>]

\* One field holds a drawn value and a drawn prior display; the other fields
\* are either all untouched or all filled in with valid values.
InitValidator ==
    /\ \E f \in Fields : \E v \in Values(f) : \E d \in PriorDisplays(f) :
       \E rest \in {[g \in Fields |-> DefaultValue(g)], FilledIn} :
          /\ value = [rest EXCEPT ![f] = v]
          /\ errors = [[g \in Fields |-> NoError] EXCEPT ![f] = d]
    /\ successDisplay = "none"
    /\ disabled = FALSE
    /\ buttonText = OriginalLabel
    /\ focus = "none"
    /\ calls = <<>>
    /\ timers = <<>>
    /\ pc = "none"
    /\ nPassed = 0
    /\ nCalls = 0
    /\ NavInit

\* validateField through blur, validateForm through a submit request.
NextValidator ==
    \/ \E f \in Fields : Blur(f)
    \/ SubmitRequested
    \/ ValidateAndSend

ValidatorSpec == InitValidator /\ [][NextValidator]_vars

-----------------------------------------------------------------------------
(* Steps of the lifecycle, as the claims speak of them *)

\* handleSubmit is running and validateForm() is about to return this.
FormIsValid == validateForm(errors, value).isValid

\* The step in which handleSubmit calls the collaborator.
SendStep == pc = "validating" /\ Len(calls') = Len(calls) + 1

\* The step in which the collaborator resolves.
ResolveStep == pc = "none" /\ Len(timers') = Len(timers) + 1

\* The step in which the collaborator rejects.
RejectStep == pc = "none" /\ pc' = "failed"

\* The step in which a reset timer fires.
ResetStep == timers # <<>> /\ timers' = Tail(timers)

AllRequiredValid == \A f \in Fields : fieldIsValid(f, value[f])

-----------------------------------------------------------------------------
(* C1: a handleSubmit invoked while a submission is in the Sending state is
   a no-op: it calls the collaborator no second time and changes no state.
   Stated over both steps of the second invocation; the script has no guard,
   so this fails as soon as the form is still valid. *)
C1_SecondSubmitIsNoOp ==
    [][((SubmissionState = "Sending" /\ pc' = "validating")
          \/ (pc = "validating" /\ calls # <<>>))
        => UNCHANGED <<value, errors, successDisplay, disabled, buttonText,
                       focus, calls, timers, nPassed, nCalls>>]_vars

(* C2: with submit events delivered only while the control is enabled, at
   most one submission is in flight: never more than one unresolved
   collaborator call, never more than one pending reset timer, and never
   both at once. *)
C2_AtMostOneInFlight ==
    /\ Len(calls) <= 1
    /\ Len(timers) <= 1
    /\ Len(calls) + Len(timers) <= 1

C2_Witness ==
    Len(calls) = 1 /\ nCalls = 2 /\ timers = <<>> /\ disabled

(* C3 as claimed: the submission state moves only along Idle->Validating,
   Validating->Sending, Validating->Idle, Sending->Succeeded,
   Sending->Failed, and both Succeeded and Failed return to Idle only in
   the step in which the reset timer fires. *)
C3_Edges ==
    {<<"Idle", "Validating">>, <<"Validating", "Sending">>,
     <<"Validating", "Idle">>, <<"Sending", "Succeeded">>,
     <<"Sending", "Failed">>, <<"Succeeded", "Idle">>, <<"Failed", "Idle">>}

C3_TransitionsAsClaimed ==
    [][SubmissionState' # SubmissionState
        => /\ <<SubmissionState, SubmissionState'>> \in C3_Edges
           /\ (SubmissionState \in {"Succeeded", "Failed"} => ResetStep)]_vars

(* C3 amended: with submit events delivered only while the control is
   enabled, the same edges; Succeeded returns to Idle only in the step in
   which the reset timer fires; Failed returns to Idle directly, when
   handleSubmit leaves its catch block, with no timer pending or fired. *)
C3_Transitions ==
    [][SubmissionState' # SubmissionState
        => /\ <<SubmissionState, SubmissionState'>> \in C3_Edges
           /\ (SubmissionState = "Succeeded" => ResetStep)
           /\ (SubmissionState = "Failed"
                 => timers = <<>> /\ timers' = <<>>)]_vars

C3_Witness == pc = "failed" /\ nCalls = 2 /\ focus = "success"

(* C4: when submit is requested and validateForm() returns false, the
   collaborator is not called, the state does not become Sending, and the
   submit control stays enabled with its label unchanged. *)
C4_InvalidSubmitStops ==
    [][(pc = "validating" /\ ~FormIsValid)
        => /\ calls' = calls
           /\ nCalls' = nCalls
           /\ SubmissionState' # "Sending"
           /\ ~disabled /\ ~disabled'
           /\ buttonText' = buttonText]_vars

C4_Witness ==
    /\ pc = "none"
    /\ focus = "email"
    /\ errors["email"].ariaInvalid
    /\ errors["message"].ariaInvalid
    /\ nCalls = 0
    /\ ~disabled

(* C5: success path.  The send step leaves the control disabled with the
   busy label; the resolve step shows the success indicator; the reset step
   leaves every field value empty, every error and invalid-marker cleared,
   the success indicator hidden and the control enabled with its original
   label, whatever input and blur events came in between. *)
C5_SuccessPath ==
    [][/\ SendStep => (disabled' /\ buttonText' = BusyLabel)
       /\ ResolveStep => (successDisplay' = "block" /\ disabled')
       /\ ResetStep
            => /\ \A f \in Fields :
                    /\ value'[f] = <<>>
                    /\ errors'[f].textContent = ""
                    /\ errors'[f].display = "none"
                    /\ ~errors'[f].ariaInvalid
               /\ successDisplay' = "none"
               /\ ~disabled'
               /\ buttonText' = OriginalLabel]_vars

C5_Witness ==
    /\ focus = "success"
    /\ successDisplay = "none"
    /\ calls = <<>> /\ timers = <<>> /\ pc = "none"
    /\ ~disabled
    /\ nCalls = 1
    /\ \A f \in Fields : value[f] = <<>> /\ ~errors[f].ariaInvalid

(* C6: failure path.  In the step in which the collaborator rejects, the
   generic failure message is put in the message field's error slot and the
   control is enabled with its original label; no timer is set, and the
   success indicator is not shown. *)
C6_FailurePath ==
    [][RejectStep
        => /\ errors'["message"].textContent = GenericFailure
           /\ errors'["message"].display = "block"
           /\ ~disabled'
           /\ buttonText' = OriginalLabel
           /\ timers' = timers
           /\ successDisplay = "none" /\ successDisplay' = "none"]_vars

C6_Witness ==
    /\ pc = "failed"
    /\ errors["message"].textContent = GenericFailure
    /\ ~disabled
    /\ buttonText = OriginalLabel

(* C7: when the collaborator rejects, every field value and the error state
   of every field but message are unchanged, and the collaborator is not
   called again: not in that step, not when handleSubmit returns, and
   afterwards only by a handleSubmit that is validating a new request. *)
C7_FailureFrame ==
    [][/\ (RejectStep \/ pc = "failed")
            => /\ value' = value
               /\ \A f \in Fields \ {"message"} : errors'[f] = errors[f]
               /\ nCalls' = nCalls
               /\ Len(calls') <= Len(calls)
       /\ nCalls' # nCalls => pc = "validating"]_vars

C7_Witness ==
    /\ pc = "failed"
    /\ errors["name"].ariaInvalid
    /\ value["email"] # <<>>
    /\ value["message"] # <<>>

(* C8: if the collaborator settles every call and timers fire, every
   submission that enters Sending leads to a state that is Idle with the
   control enabled and showing the label it had before that submission, and
   the control is never disabled for ever. *)
C8_BackToIdle ==
    /\ \A l \in {OriginalLabel, BusyLabel} :
          (calls # <<>> /\ Head(calls).originalButtonText = l)
             ~> (SubmissionState = "Idle" /\ ~disabled /\ buttonText = l)
    /\ disabled ~> ~disabled

C8_Witness ==
    /\ SubmissionState = "Idle"
    /\ nCalls = 2
    /\ ~disabled
    /\ buttonText = OriginalLabel

(* C9 as claimed: in every reachable state a field whose value passes its
   rule is not marked invalid and shows no error message. *)
C9_NoStaleErrorAsClaimed ==
    \A f \in Fields :
        fieldIsValid(f, value[f])
          => (~errors[f].ariaInvalid /\ errors[f].textContent = "")

(* C9 amended: in every reachable state each field either shows no error
   and is not marked, or is marked and shows the message its rule gives for
   its current value; the one exception is the message field, which may be
   marked and show the generic failure message after a rejection. *)
C9_NoStaleError ==
    \A f \in Fields :
        \/ errors[f] = NoError
        \/ /\ errors[f].ariaInvalid
           /\ errors[f].display = "block"
           /\ errors[f].textContent # ""
           /\ \/ errors[f].textContent = fieldError(f, value[f])
              \/ f = "message" /\ errors[f].textContent = GenericFailure

C9_Witness ==
    /\ pc = "none"
    /\ errors["message"].textContent = GenericFailure
    /\ fieldIsValid("message", value["message"])
    /\ errors["name"].ariaInvalid
    /\ errors["email"] = NoError
    /\ fieldIsValid("email", value["email"])

(* C10: every submit request that passes validateForm() calls the
   collaborator exactly once: the calls made always number the submit
   requests that passed. *)
C10_OneCallPerValidSubmit == nCalls = nPassed

C10_Witness ==
    nPassed = 2 /\ nCalls = 2 /\ focus \in Fields /\ calls # <<>>

(* C11: after a failed submission, a new submit request with the same, still
   valid field values passes validateForm(), clears the generic failure
   message from the message field and reaches Sending again. *)
C11_ResubmitAfterFailure ==
    [][(/\ pc = "validating"
        /\ errors["message"].textContent = GenericFailure
        /\ AllRequiredValid)
        => /\ errors'["message"] = NoError
           /\ nPassed' = nPassed + 1
           /\ Len(calls') = Len(calls) + 1
           /\ SubmissionState' = "Sending"]_vars

C11_Witness ==
    /\ pc = "validating"
    /\ errors["message"] = Shown(GenericFailure)
    /\ AllRequiredValid
    /\ nCalls = 1

\* The display validateField leaves for value v of the field.
Expected(fieldName, v) ==
    IF fieldError(fieldName, v) = "" THEN NoError
    ELSE Shown(fieldError(fieldName, v))

\* The fields whose current value fails its rule, by position.
InvalidPositions ==
    {i \in 1..Len(FieldOrder) : ~fieldIsValid(FieldOrder[i], value[FieldOrder[i]])}

(* C13: validateForm() validates all five fields without short-circuiting:
   it returns true exactly when every field is valid, and after it every
   field's error display is the one its own value calls for, also for the
   fields that come after the first invalid one. *)
C13_ValidateFormAllFields ==
    [][pc = "validating"
        => /\ \A f \in Fields : errors'[f] = Expected(f, value[f])
           /\ nPassed' = IF InvalidPositions = {} THEN nPassed + 1 ELSE nPassed
           /\ (Len(calls') = Len(calls) + 1) <=> (InvalidPositions = {})]_vars

C13_Witness ==
    /\ pc = "none"
    /\ focus = "name"
    /\ errors["name"].ariaInvalid
    /\ errors["email"] = NoError /\ fieldIsValid("email", value["email"])
    /\ errors["message"] = Shown("Message must be at least 10 characters")
    /\ nCalls = 0

(* C14: after a submit request with at least one invalid field, focus is on
   the first invalid field in declaration order. *)
C14_FocusFirstInvalid ==
    [][(pc = "validating" /\ InvalidPositions # {})
        => \E i \in InvalidPositions :
              /\ \A j \in InvalidPositions : i <= j
              /\ focus' = FieldOrder[i]]_vars

C14_Witness ==
    /\ pc = "none"
    /\ focus = "phone"
    /\ errors["phone"].ariaInvalid
    /\ errors["message"].ariaInvalid
    /\ fieldIsValid("name", value["name"])
    /\ fieldIsValid("email", value["email"])

\* The values String.prototype.trim() reduces to the empty string.
AllWhitespace(v) == \A i \in 1..Len(v) : v[i] \in Whitespace

\* The four required fields hold valid values.
RequiredFieldsValid ==
    \A f \in Fields \ {"phone"} : fieldIsValid(f, value[f])

(* C12: when the phone field is empty or whitespace only, validateField on
   it returns valid and clears any phone error, so a submit whose four
   required fields are valid reaches Sending whatever error state the phone
   field had before. *)
C12_EmptyPhoneNeverBlocks ==
    /\ [](AllWhitespace(value["phone"])
            => /\ fieldIsValid("phone", value["phone"])
               /\ validateField(errors, value, "phone")["phone"] = NoError)
    /\ [][(/\ pc = "validating"
           /\ AllWhitespace(value["phone"])
           /\ RequiredFieldsValid)
           => /\ errors'["phone"] = NoError
              /\ Len(calls') = Len(calls) + 1
              /\ SubmissionState' = "Sending"]_vars

C12_Witness ==
    /\ pc = "validating"
    /\ value["phone"] = <<" ", "\t">>
    /\ errors["phone"] = Shown("Please enter a valid phone number")
    /\ RequiredFieldsValid

\* A step of the 'input' listener of the field: its value changes while no
\* submission is being handled and no timer fires.
InputStepOn(fieldName) ==
    /\ pc = "none" /\ pc' = "none"
    /\ timers' = timers
    /\ value'[fieldName] # value[fieldName]

(* C15: an input event on a field re-runs validateField for it exactly when
   the field's invalid-marker is set: a marked field shows, in the same step,
   the display its new value calls for, and an unmarked field keeps showing
   no error even if its new value is invalid.  A blur event on any field, in
   any prior state, runs validateField for it. *)
C15_LiveRevalidation ==
    /\ [][\A f \in Fields :
            InputStepOn(f)
              => errors'[f] = IF errors[f].ariaInvalid
                              THEN Expected(f, value'[f])
                              ELSE errors[f]]_vars
    /\ [](pc = "none"
            => \A f \in Fields :
                  ENABLED (Blur(f) /\ errors'[f] = Expected(f, value[f])))

C15_Witness ==
    /\ pc = "none"
    /\ value["name"] = <<"J">>
    /\ errors["name"] = NoError
    /\ errors["email"] = NoError
    /\ value["email"] # <<>> /\ fieldIsValid("email", value["email"])
    /\ errors["message"].ariaInvalid
    /\ focus = "name"

\* A step of a field listener: no submission is being handled before or
\* after it, and no collaborator call or timer starts or ends.
FieldListenerStep ==
    /\ pc = "none" /\ pc' = "none"
    /\ calls' = calls
    /\ timers' = timers

(* C16: validateField(name), triggered by input or blur, changes the error
   message and invalid-marker of that field only: the values and error
   displays of the other four fields, the success indicator, the submit
   control and the submission state are unchanged. *)
C16_ValidateFieldFrame ==
    [][FieldListenerStep
        => /\ \E f \in Fields :
                \A g \in Fields \ {f} :
                    errors'[g] = errors[g] /\ value'[g] = value[g]
           /\ UNCHANGED <<successDisplay, disabled, buttonText>>
           /\ SubmissionState' = SubmissionState]_vars

C16_Witness ==
    /\ pc = "none"
    /\ focus = "none"
    /\ errors["name"].ariaInvalid
    /\ errors["email"] = NoError
    /\ ~fieldIsValid("email", value["email"])
    /\ errors["message"] = NoError
    /\ ~fieldIsValid("message", value["message"])

(* C17: validateField is idempotent: for every field and value, a second
   call with no value change in between leaves the error message and
   invalid-marker the first call left, and the marker left by either call is
   set exactly when the call returns invalid. *)
C17_ValidateFieldIdempotent ==
    \A f \in Fields :
        LET once == validateField(errors, value, f)
            twice == validateField(once, value, f)
        IN /\ twice = once
           /\ once[f].ariaInvalid = ~fieldIsValid(f, value[f])
           /\ twice[f].ariaInvalid = ~fieldIsValid(f, value[f])

C17_Witness ==
    /\ pc = "none"
    /\ errors["message"] = Shown("Message must be less than 2000 characters")
    /\ errors["name"] = Shown("Name is required")
    /\ errors["email"] = NoError /\ value["email"] = <<>>

\* The "required" message of each required field.
RequiredMessage(fieldName) ==
    CASE fieldName = "name" -> "Name is required"
      [] fieldName = "email" -> "Email is required"
      [] fieldName = "subject" -> "Please select a subject"
      [] fieldName = "message" -> "Message is required"

(* C18: for each required field (name, email, subject, message),
   validateField on an empty or whitespace-only value yields that field's
   "required" error and marks the field invalid; for the optional field
   (phone) an empty or whitespace-only value yields no error. *)
C18_RequiredWhenBlank ==
    \A f \in Fields :
        AllWhitespace(value[f])
          => IF f = "phone"
             THEN /\ fieldIsValid(f, value[f])
                  /\ validateField(errors, value, f)[f] = NoError
             ELSE /\ ~fieldIsValid(f, value[f])
                  /\ validateField(errors, value, f)[f] = Shown(RequiredMessage(f))

C18_Witness ==
    /\ pc = "none"
    /\ value["subject"] = <<"\t", " ">>
    /\ errors["subject"] = Shown("Please select a subject")
    /\ errors["name"] = Shown("Name is required")
    /\ errors["phone"] = NoError

\* What the length rule of a field says about a trimmed length of n >= 1.
LengthVerdict(n, lo, hi, tooShort, tooLong) ==
    IF n < lo THEN tooShort ELSE IF n > hi THEN tooLong ELSE ""

\* v consists of n >= 1 characters of text with blanks around them.
IsPadded(v, n) ==
    \E lead \in 0..MaxPad : \E trail \in 0..MaxPad :
        /\ Len(v) = lead + n + trail
        /\ v = Padded(lead, n, trail)

(* C19: length rules apply to the trimmed value: name is valid exactly when
   its trimmed length is between 2 and 100 inclusive (1 gives "too short",
   101 gives "too long"), and message is valid exactly when its trimmed
   length is between 10 and 2000 inclusive (9 gives "too short", 2001 gives
   "too long"), whatever blanks surround the text. *)
C19_LengthRulesOnTrimmed ==
    /\ \A n \in LengthsAround(2, 100) \ {0} :
          IsPadded(value["name"], n)
            => fieldError("name", value["name"]) =
                  LengthVerdict(n, 2, 100,
                                "Name must be at least 2 characters",
                                "Name must be less than 100 characters")
    /\ \A n \in LengthsAround(10, 2000) \ {0} :
          IsPadded(value["message"], n)
            => fieldError("message", value["message"]) =
                  LengthVerdict(n, 10, 2000,
                                "Message must be at least 10 characters",
                                "Message must be less than 2000 characters")

C19_Witness ==
    /\ value["message"] = Padded(1, 2000, 1)
    /\ errors["message"] = NoError
    /\ Len(calls) = 1

\* The characters the claim allows in a phone number.
PhoneCharsAsClaimed == Digits \cup {" ", "+", "-", "(", ")"}

(* C20 as stated: a non-empty phone value is valid if and only if every
   character is a digit, a space, '+', '-', '(' or ')'. *)
C20_PhoneFormatAsClaimed ==
    value["phone"] # <<>>
      => (fieldIsValid("phone", value["phone"])
            <=> \A i \in 1..Len(value["phone"]) :
                    value["phone"][i] \in PhoneCharsAsClaimed)

(* C20: a non-empty phone value is valid if and only if every character is
   a digit, a whitespace character (space, tab, line break), '+', '-', '('
   or ')'; any other character yields the "invalid format" error. *)
C20_PhoneFormat ==
    value["phone"] # <<>>
      => /\ fieldIsValid("phone", value["phone"])
              <=> \A i \in 1..Len(value["phone"]) :
                      value["phone"][i] \in (PhoneCharsAsClaimed \cup Whitespace)
         /\ fieldError("phone", value["phone"])
              \in {"", "Please enter a valid phone number"}
         /\ validateField(errors, value, "phone")["phone"]
              = IF fieldIsValid("phone", value["phone"]) THEN NoError
                ELSE Shown("Please enter a valid phone number")

C20_Witness ==
    /\ value["phone"] = <<"1", "\t", "2">>
    /\ errors["phone"] = NoError
    /\ Len(calls) = 1

\* The shape the claim describes: no whitespace, exactly one '@' with text
\* before it, and after the '@' a '.' with text on each side of it.
EmailShape(s) ==
    /\ \A i \in 1..Len(s) : s[i] \notin Whitespace
    /\ Cardinality({i \in 1..Len(s) : s[i] = "@"}) = 1
    /\ \E p \in 2..Len(s) :
          /\ s[p] = "@"
          /\ \E q \in (p + 2)..(Len(s) - 1) : s[q] = "."

(* C21: a non-empty email value is valid if and only if the raw, untrimmed
   value contains no whitespace, exactly one '@' with at least one character
   before it, and after the '@' at least one '.' with at least one character
   on each side of it; "a@b.c" is valid, "not-an-email" is invalid, and an
   otherwise valid address with leading or trailing whitespace is invalid. *)
C21_EmailFormat ==
    value["email"] # <<>>
      => /\ fieldIsValid("email", value["email"]) <=> EmailShape(value["email"])
         /\ validateField(errors, value, "email")["email"]
              = IF EmailShape(value["email"]) THEN NoError
                ELSE IF AllWhitespace(value["email"])
                     THEN Shown("Email is required")
                     ELSE Shown("Please enter a valid email address")

C21_Witness ==
    /\ value["email"] = <<" ", "a", "@", "b", ".", "c">>
    /\ errors["email"] = Shown("Please enter a valid email address")
    /\ errors["name"] = NoError
    /\ pc = "none"
    /\ focus = "email"

(* C22: the snapshot passed to the collaborator holds the five field values
   as they were when submit was requested (phone as the empty string when
   empty), and input events during Sending do not change the snapshot of the
   unresolved call. *)
C22_SnapshotAtSubmit ==
    [][/\ (pc = "validating" /\ Len(calls') = Len(calls) + 1)
          => /\ DOMAIN calls'[Len(calls')].data = Fields
             /\ \A f \in Fields : calls'[Len(calls')].data[f] = value[f]
       /\ (calls # <<>> /\ Len(calls') = Len(calls))
          => \A i \in 1..Len(calls) : calls'[i].data = calls[i].data]_vars

C22_Witness ==
    /\ calls # <<>>
    /\ calls[1].data["phone"] # <<>>
    /\ value["name"] # calls[1].data["name"]
    /\ value["phone"] = <<>>

(* C23: with submit events delivered only while the submit control is
   enabled, in every reachable state the control is disabled if and only if
   a collaborator call is unresolved or a post-success reset timer is
   pending; when neither is pending the control is enabled and shows its
   original label. *)
C23_DisabledIffPending ==
    /\ disabled <=> (calls # <<>> \/ timers # <<>>)
    /\ (calls = <<>> /\ timers = <<>>)
          => (~disabled /\ buttonText = OriginalLabel)
    /\ disabled => buttonText = BusyLabel

C23_Witness ==
    /\ disabled
    /\ calls = <<>>
    /\ timers # <<>>
    /\ buttonText = BusyLabel
    /\ nCalls = 2

(* C24: with submit events delivered only while the submit control is
   enabled, the success indicator is visible only between a successful
   resolution and the following reset: visible implies the control is
   disabled, and the indicator is hidden in Idle, Validating, Sending and
   Failed. *)
C24_SuccessOnlyWhileSucceeded ==
    /\ successDisplay = "block" => disabled
    /\ successDisplay = "block" => SubmissionState = "Succeeded"
    /\ SubmissionState \in {"Idle", "Validating", "Sending", "Failed"}
          => successDisplay = "none"

C24_Witness ==
    /\ successDisplay = "block"
    /\ focus = "success"
    /\ disabled
    /\ SubmissionState = "Succeeded"
    /\ \E f \in Fields : value[f] # DefaultValue(f)

\* The three signs of an open menu.
MenuSigns ==
    <<menu.ariaExpanded = "true", menu.navActive, menu.bodyOverflow = "hidden">>

(* C25: starting from a closed menu, after any sequence of toggle clicks,
   Escape key presses, outside clicks, nav-link clicks and resize timeouts,
   the toggle's aria-expanded is 'true' if and only if the nav menu has the
   'active' class if and only if body scrolling is locked; and a close
   operation on an already closed menu changes nothing. *)
C25_MenuInSync ==
    /\ MenuSigns \in {<<TRUE, TRUE, TRUE>>, <<FALSE, FALSE, FALSE>>}
    /\ menu.ariaExpanded \in {"true", "false"}
    /\ menu.bodyOverflow \in {"", "hidden"}
    /\ ~menu.navActive
          => /\ closeMobileMenu(menu) = menu
             /\ handleKeyboardNav(menu, "Escape") = menu
             /\ handleOutsideClick(menu, "page") = menu
             /\ onResizeTimeout(menu, innerWidth) = menu
             /\ \A href \in NavLinks :
                   handleSmoothScroll(menu, hash, href).menu = menu

C25_Witness ==
    /\ MenuSigns = <<TRUE, TRUE, TRUE>>
    /\ focus = "toggle"
    /\ hash = <<"#", "w", "o", "r", "k">>
    /\ innerWidth = 1024
    /\ resizeTimer

====
